---- MODULE Spec2Model ----
(***************************************************************************)
(* Model of the nbody crate: Body (body.rs), the gravitational derivative  *)
(* function Simulator::compute_forces and the Simulator controller         *)
(* (simulator.rs), and the RungeKuttaFehlberg stepper (integrator.rs).     *)
(*                                                                         *)
(* Numbers.  The program computes in f64.  The model computes in exact     *)
(* rationals <<n, d>> (d > 0, lowest terms), so every identity checked     *)
(* here is the identity of the arithmetic the f64 code approximates.       *)
(* Inputs are drawn from small sets chosen so that every square root the   *)
(* code takes is rational and every intermediate value fits TLC's          *)
(* integers.                                                                *)
(***************************************************************************)
EXTENDS Integers, Sequences, FiniteSets, TLC

VARIABLES
    bodies,          \* Simulator.bodies / the slice lent to the integrator
    time,            \* Simulator.time
    dt,              \* Simulator.dt / the dt argument of RungeKuttaFehlberg::step
    derivative_fn,   \* the derivative_fn argument of RungeKuttaFehlberg::step
    pc,              \* position of the single thread of control
    stage,           \* loop variable `stage` of RungeKuttaFehlberg::step
    initial_bodies,  \* local `initial_bodies` of RungeKuttaFehlberg::step
    k,               \* local `k` of RungeKuttaFehlberg::step
    ret,             \* value returned by the last RungeKuttaFehlberg::step
    evals,           \* log of the derivative_fn invocations of the current call
    entry,           \* ensemble as it was when the current call was entered
    steps,           \* number of calls completed (capped by the bounds)
    output_file,     \* Simulator.output_file: "None" or "Some" (an open File)
    file,            \* lines of the file at output_path, each a sequence of fields
    writes,          \* outcome of every row write attempted so far, in order
    created,         \* how the Simulator was constructed, and with what result
    run,             \* the call of Simulator::run in progress: num_steps, the
                     \* iterations made, and the value of steps when it began
    energy,          \* values returned by the last energy accessor called
    twin,            \* a second Simulator, built and driven as the first one
    ini,             \* the configuration file main is given
    config,          \* what parse_ini_file has returned to main
    trajectory       \* what TrajectoryData::load_csv has returned, once called

vars == <<bodies, time, dt, derivative_fn, pc, stage, initial_bodies, k, ret,
          evals, entry, steps, output_file, file, writes, created, run, energy,
                   twin, ini, config, trajectory>>

----------------------------------------------------------------------------
(* Exact rational arithmetic standing for the f64 operators.               *)

IAbs(x) == IF x < 0 THEN -x ELSE x

RECURSIVE GCD(_, _)
GCD(a, b) == IF b = 0 THEN a ELSE GCD(b, a % b)

\* the rational n/d in lowest terms with a positive denominator (d # 0)
Rat(n, d) ==
    LET g == GCD(IAbs(n), IAbs(d))
        s == IF d < 0 THEN -1 ELSE 1
    IN  <<s * (n \div g), s * (d \div g)>>

R(n) == <<n, 1>>
Zero == R(0)

\* what f64 yields where the rationals yield nothing (NaN, +inf, -inf); it
\* absorbs every operation, as NaN does
NonFinite == <<0, 0>>
IsFinite(x) == x[2] # 0

RAdd(x, y) ==
    IF ~IsFinite(x) \/ ~IsFinite(y) THEN NonFinite
    ELSE LET g == GCD(x[2], y[2])
             l == (x[2] \div g) * y[2]
         IN  Rat(x[1] * (l \div x[2]) + y[1] * (l \div y[2]), l)

RNeg(x) == <<-x[1], x[2]>>

RSub(x, y) == RAdd(x, RNeg(y))

\* x < y (false when either side is not finite, as for NaN)
RLt(x, y) == IsFinite(x) /\ IsFinite(y) /\ RSub(x, y)[1] < 0

RMul(x, y) ==
    IF ~IsFinite(x) \/ ~IsFinite(y) THEN NonFinite
    ELSE LET g1 == GCD(IAbs(x[1]), y[2])
             g2 == GCD(IAbs(y[1]), x[2])
         IN  Rat((x[1] \div g1) * (y[1] \div g2), (x[2] \div g2) * (y[2] \div g1))

RDiv(x, y) ==
    IF ~IsFinite(y) \/ y[1] = 0 THEN NonFinite
    ELSE RMul(x, IF y[1] < 0 THEN <<-y[2], -y[1]>> ELSE <<y[2], y[1]>>)

RAbs(x) == <<IAbs(x[1]), x[2]>>

\* f64::max (a NaN operand is ignored)
RMax(x, y) == IF ~IsFinite(x) THEN y ELSE IF RLt(x, y) THEN y ELSE x

\* f64::sqrt on the squares the bounded inputs produce (a rational square)
ISqrt(n) == CHOOSE r \in 0..n : r * r = n
RSqrt(x) == IF ~IsFinite(x) THEN NonFinite ELSE <<ISqrt(x[1]), ISqrt(x[2])>>

----------------------------------------------------------------------------
(* body.rs                                                                 *)

Body_new(mass, position, velocity) ==
    [mass |-> mass, position |-> position, velocity |-> velocity,
     acceleration |-> <<Zero, Zero, Zero>>]

vector_to(self, other) ==
    << RSub(other.position[1], self.position[1]),
       RSub(other.position[2], self.position[2]),
       RSub(other.position[3], self.position[3]) >>

distance_to(self, other) ==
    LET dx == RSub(other.position[1], self.position[1])
        dy == RSub(other.position[2], self.position[2])
        dz == RSub(other.position[3], self.position[3])
    IN  RSqrt(RAdd(RAdd(RMul(dx, dx), RMul(dy, dy)), RMul(dz, dz)))

reset_acceleration_Keep(self) == self

reset_acceleration(self) == [self EXCEPT !.acceleration = <<Zero, Zero, Zero>>]

----------------------------------------------------------------------------
(* simulator.rs: the gravitational derivative function                     *)

\* const G.  The unit of mass is chosen so that G is the rational 2/3
\* (6.67430e-11 m^3 kg^-1 s^-2 is not representable in TLC's integers); a
\* value different from 1 keeps a dropped or doubled factor G visible.
G == <<2, 3>>

\* the (i, j) visited by `for i in 0..n { for j in (i + 1)..n`, in loop
\* order, with the model's 1-based indices
RECURSIVE PairOrderFrom(_, _, _)
PairOrderFrom(i, j, n) ==
    IF i > n THEN << >>
    ELSE IF j > n THEN PairOrderFrom(i + 1, i + 2, n)
    ELSE << <<i, j>> >> \o PairOrderFrom(i, j + 1, n)

PairOrder(n) == PairOrderFrom(1, 2, n)

Separated_Always(r) == TRUE

\* `if r > 0.0`
Separated(r) == RLt(Zero, r)

\* `bodies[i].acceleration[k] += f / bodies[i].mass`
Action(acc, f, m) == RAdd(acc, RDiv(f, m))

Reaction_Same(acc, f, m) == RAdd(acc, RDiv(f, m))

\* `bodies[j].acceleration[k] -= f / bodies[j].mass`
Reaction(acc, f, m) == RSub(acc, RDiv(f, m))

StoreAcceleration_InVelocity(body, acc) == [body EXCEPT !.velocity = acc]

\* the assignment to the acceleration field of one body
StoreAcceleration(body, acc) == [body EXCEPT !.acceleration = acc]

\* body of the inner loop for one pair (i, j)
PairStep(bs, i, j) ==
    LET r_vec == vector_to(bs[i], bs[j])
        r == RSqrt(RAdd(RAdd(RMul(r_vec[1], r_vec[1]), RMul(r_vec[2], r_vec[2])),
                        RMul(r_vec[3], r_vec[3])))
    IN  IF Separated(r)
        THEN LET force_over_dist_cubed ==
                     RDiv(RMul(RMul(G, bs[i].mass), bs[j].mass),
                          RMul(RMul(r, r), r))
                 f(c) == RMul(force_over_dist_cubed, r_vec[c])
                 ai(c) == Action(bs[i].acceleration[c], f(c), bs[i].mass)
                 aj(c) == Reaction(bs[j].acceleration[c], f(c), bs[j].mass)
             IN  [bs EXCEPT ![i] = StoreAcceleration(bs[i], <<ai(1), ai(2), ai(3)>>),
                            ![j] = StoreAcceleration(bs[j], <<aj(1), aj(2), aj(3)>>)]
        ELSE bs

RECURSIVE PairLoop(_, _, _)
PairLoop(bs, pairs, idx) ==
    IF idx > Len(pairs) THEN bs
    ELSE PairLoop(PairStep(bs, pairs[idx][1], pairs[idx][2]), pairs, idx + 1)

compute_forces(bs) ==
    PairLoop([i \in 1..Len(bs) |-> reset_acceleration(bs[i])],
             PairOrder(Len(bs)), 1)

----------------------------------------------------------------------------
(* integrator.rs: RungeKuttaFehlberg                                       *)

\* RungeKuttaFehlberg::new: the fields c, a, b, b5, b4 (rows and columns are
\* 0-based in the code and 1-based here)
coeff_c == << Zero, Rat(1, 4), Rat(3, 8), Rat(12, 13), R(1), Rat(1, 2) >>

coeff_a == << Zero, Rat(1, 4), Rat(3, 8), Rat(12, 13), R(1), Rat(1, 2) >>

coeff_b ==
    << << Zero, Zero, Zero, Zero, Zero >>,
       << Rat(1, 4), Zero, Zero, Zero, Zero >>,
       << Rat(3, 32), Rat(9, 32), Zero, Zero, Zero >>,
       << Rat(1932, 2197), Rat(-7200, 2197), Rat(7296, 2197), Zero, Zero >>,
       << Rat(439, 216), R(-8), Rat(3680, 513), Rat(-845, 4104), Zero >>,
       << Rat(-8, 27), R(2), Rat(-3544, 2565), Rat(1859, 4104), Rat(-11, 40) >> >>

b5_NotNormalised == << Rat(16, 135), Zero, Rat(6656, 12825), Rat(28561, 56430), Rat(-9, 50), Zero >>

b5 == << Rat(16, 135), Zero, Rat(6656, 12825), Rat(28561, 56430), Rat(-9, 50), Rat(2, 55) >>

b4 == << Rat(25, 216), Zero, Rat(1408, 2565), Rat(2197, 4104), Rat(-1, 5), Zero >>

\* the 6 of `vec![...; 6]` and of `for stage in 0..6`
NumStages == 6

StageLoopEnd_Short == NumStages - 1

\* the 6 of `for stage in 1..6`
StageLoopEnd == 6

\* a derivative function other than the simulator's: a uniform field, which
\* overwrites every acceleration with the same vector
UniformField == << R(1), Zero, R(-2) >>

uniform_field(bs) == [i \in 1..Len(bs) |-> [bs[i] EXCEPT !.acceleration = UniformField]]

DerivativeFunctions == { "compute_forces", "uniform_field" }

\* the call derivative_fn(bodies)
Derivative(fn, bs) ==
    IF fn = "compute_forces" THEN compute_forces(bs) ELSE uniform_field(bs)

\* `vec![vec![[0.0; 6]; n]; 6]`
ZeroK(n) ==
    [s \in 1..NumStages |-> [i \in 1..n |-> <<Zero, Zero, Zero, Zero, Zero, Zero>>]]

\* the six assignments k[stage][i][..] = dt * ... for every body
KRow(bs, h) ==
    [i \in 1..Len(bs) |->
        << RMul(h, bs[i].velocity[1]), RMul(h, bs[i].velocity[2]),
           RMul(h, bs[i].velocity[3]), RMul(h, bs[i].acceleration[1]),
           RMul(h, bs[i].acceleration[2]), RMul(h, bs[i].acceleration[3]) >>]

\* acc += weights[p] * kk[p][i][dim] for p = p..last, in that order
RECURSIVE Accumulate(_, _, _, _, _, _, _)
Accumulate(weights, kk, i, dim, p, last, acc) ==
    IF p > last THEN acc
    ELSE Accumulate(weights, kk, i, dim, p + 1, last,
                    RAdd(acc, RMul(weights[p], kk[p][i][dim])))

Restore_Skip(cur, init) == cur

\* bodies.copy_from_slice(&initial_bodies): whole bodies, acceleration included
Restore(cur, init) == init

\* the row of b read at a stage: `self.b[stage - 1]`
StageRow(stg) == stg - 1

\* the indices `self.b[stage - 1][prev_stage]` and `k[stage]` are in range
StageInRange(stg) ==
    /\ StageRow(stg) \in 0..5
    /\ stg - 1 \in 0..4
    /\ stg \in 0..(NumStages - 1)

\* lines 90-112: the intermediate state of a stage
StageState(cur, init, kk, stg) ==
    LET base == Restore(cur, init)
        row == coeff_b[StageRow(stg) + 1]
        dx(i, c) == Accumulate(row, kk, i, c, 1, stg, Zero)
        dv(i, c) == Accumulate(row, kk, i, c + 3, 1, stg, Zero)
    IN  [i \in 1..Len(base) |->
            [base[i] EXCEPT
                !.position = << RAdd(base[i].position[1], dx(i, 1)),
                                RAdd(base[i].position[2], dx(i, 2)),
                                RAdd(base[i].position[3], dx(i, 3)) >>,
                !.velocity = << RAdd(base[i].velocity[1], dv(i, 1)),
                                RAdd(base[i].velocity[2], dv(i, 2)),
                                RAdd(base[i].velocity[3], dv(i, 3)) >>]]

FinalState_Reversed(cur, init, kk) ==
    LET base == Restore(cur, init)
    IN  [i \in 1..Len(base) |-> base[Len(base) + 1 - i]]

\* lines 128-149: restore, then the 5th order update
FinalState(cur, init, kk) ==
    LET base == Restore(cur, init)
        update(i, dim) == Accumulate(b5, kk, i, dim, 1, NumStages, Zero)
    IN  [i \in 1..Len(base) |->
            [base[i] EXCEPT
                !.position = << RAdd(base[i].position[1], update(i, 1)),
                                RAdd(base[i].position[2], update(i, 2)),
                                RAdd(base[i].position[3], update(i, 3)) >>,
                !.velocity = << RAdd(base[i].velocity[1], update(i, 4)),
                                RAdd(base[i].velocity[2], update(i, 5)),
                                RAdd(base[i].velocity[3], update(i, 6)) >>]]

Diff_Signed(kk, i, dim) ==
    RSub(Accumulate(b5, kk, i, dim, 1, NumStages, Zero),
         Accumulate(b4, kk, i, dim, 1, NumStages, Zero))

\* `let diff = (sol5 - sol4).abs()`
Diff(kk, i, dim) ==
    RAbs(RSub(Accumulate(b5, kk, i, dim, 1, NumStages, Zero),
              Accumulate(b4, kk, i, dim, 1, NumStages, Zero)))

\* lines 152-166: error = error.max(diff) over i in 0..n, dim in 0..6
RECURSIVE ErrorLoop(_, _, _, _, _)
ErrorLoop(kk, n, i, dim, error) ==
    IF i > n THEN error
    ELSE IF dim > 6 THEN ErrorLoop(kk, n, i + 1, 1, error)
    ELSE ErrorLoop(kk, n, i, dim + 1, RMax(error, Diff(kk, i, dim)))

\* the pair (error_5th, error_4th) returned
ErrorEstimate(kk, n) ==
    << ErrorLoop(kk, n, 1, 1, Zero), ErrorLoop(kk, n, 1, 1, Zero) >>

MaxSteps == 2

\* no call of Simulator::run is in progress
NoRun == [status |-> "none", num_steps |-> 0, i |-> 0, steps0 |-> 0]

RunContinues_Short(r) == r.i + 1 < r.num_steps

\* `for _ in 0..num_steps`: the range has another element, r.i iterations
\* having been made
RunContinues(r) == r.i < r.num_steps

\* no energy accessor has been called
NoEnergy == [of |-> "none", value |-> Zero]

\* there is no second Simulator
NoTwin ==
    [present |-> FALSE, bodies |-> << >>, time |-> Zero, dt |-> Zero, pc |-> "idle",
     emitted |-> << >>]

\* main has not been started: no configuration file, nothing parsed
NoIni == [readable |-> TRUE, lines |-> << >>]

NoConfig == [at |-> "none", bodies |-> << >>]

\* load_csv has not been called
NoTrajectory == [opened |-> FALSE, result |-> "none", bodies |-> << >>, num_frames |-> 0]

\* RungeKuttaFehlberg::step, lines 68-85: snapshot, allocation of k, the
\* evaluation at the current state
RKF_Enter ==
    /\ pc = "idle"
    /\ steps < MaxSteps
    /\ run.status = "running" => RunContinues(run)
    /\ LET after == Derivative(derivative_fn, bodies)
       IN  /\ initial_bodies' = bodies
           /\ entry' = bodies
           /\ bodies' = after
           /\ k' = [ZeroK(Len(bodies)) EXCEPT ![1] = KRow(after, dt)]
           /\ evals' = << [stage |-> 0, at |-> bodies, out |-> after] >>
    /\ stage' = 1
    /\ pc' = "stages"
    /\ UNCHANGED <<time, dt, derivative_fn, ret, steps, output_file, file,
                   writes, created, run, energy,
                   twin, ini, config, trajectory>>

\* one iteration of `for stage in 1..6`, lines 88-126
RKF_Stage ==
    /\ pc = "stages"
    /\ stage < StageLoopEnd
    /\ IF StageInRange(stage)
       THEN LET at == StageState(bodies, initial_bodies, k, stage)
                after == Derivative(derivative_fn, at)
            IN  /\ bodies' = after
                /\ k' = [k EXCEPT ![stage + 1] = KRow(after, dt)]
                /\ evals' = Append(evals, [stage |-> stage, at |-> at, out |-> after])
                /\ stage' = stage + 1
                /\ pc' = pc
       ELSE /\ pc' = "panicked"
            /\ UNCHANGED <<bodies, k, evals, stage>>
    /\ UNCHANGED <<time, dt, derivative_fn, initial_bodies, ret, entry, steps,
                   output_file, file,
                   writes, created, run, energy,
                   twin, ini, config, trajectory>>

\* lines 128-168: the 5th order solution, the error estimate, the return
RKF_Return ==
    /\ pc = "stages"
    /\ stage >= StageLoopEnd
    /\ bodies' = FinalState(bodies, initial_bodies, k)
    /\ ret' = ErrorEstimate(k, Len(bodies))
    /\ pc' = "returned"
    /\ UNCHANGED <<time, dt, derivative_fn, stage, initial_bodies, k, evals, entry,
                   steps, output_file, file,
                   writes, created, run, energy,
                   twin, ini, config, trajectory>>

----------------------------------------------------------------------------
(* The ensembles, step sizes and derivative functions the calls are given  *)

MaxBodies == 2

Masses == { R(1), R(2) }

\* a body at rest at the origin, a moving body, and a second moving body at
\* the place and with the velocity of the first one
BodyChoices ==
    { Body_new(R(1), <<Zero, Zero, Zero>>, <<Zero, Zero, Zero>>),
      Body_new(R(2), <<R(1), R(2), Zero>>, <<R(1), Zero, R(-1)>>),
      Body_new(R(1), <<R(1), R(2), Zero>>, <<R(1), Zero, R(-1)>>) }

Ensembles == UNION { [1..n -> BodyChoices] : n \in 0..MaxBodies }

\* every pair of bodies shares its place and its velocity: the ensembles on
\* which gravitation, integrated exactly, stays within TLC's integers
Clustered(bs) ==
    \A i, j \in 1..Len(bs) :
        bs[i].position = bs[j].position /\ bs[i].velocity = bs[j].velocity

DtValues == { R(1), Rat(1, 2) }

\* what the acceleration fields may hold before a call: the zeros of
\* Body::new, or the values left by an earlier evaluation or by a caller
StaleAccelerations == { <<Zero, Zero, Zero>>, <<R(5), R(-7), R(1)>> }

\* the ensemble with every acceleration field replaced by a
WithAccelerations(bs, a) == [i \in 1..Len(bs) |-> [bs[i] EXCEPT !.acceleration = a]]

----------------------------------------------------------------------------
(* RungeKuttaFehlberg::step as a function of its arguments: the ensemble,  *)
(* dt and the derivative function are drawn, and one call runs to its      *)
(* return                                                                  *)

InitRKF ==
    /\ derivative_fn \in DerivativeFunctions
    /\ \E bs \in Ensembles, a \in StaleAccelerations :
          /\ derivative_fn = "compute_forces" => Clustered(bs)
          /\ bodies = WithAccelerations(bs, a)
    /\ dt \in DtValues
    /\ time = Zero
    /\ pc = "idle"
    /\ stage = 0
    /\ initial_bodies = << >>
    /\ k = << >>
    /\ ret = <<Zero, Zero>>
    /\ evals = << >>
    /\ entry = bodies
    /\ steps = 0
    /\ output_file = "None"
    /\ file = << >>
    /\ writes = << >>
    /\ created = [by |-> "new", create_ok |-> TRUE, header_ok |-> TRUE, result |-> "Ok"]
    /\ run = NoRun
    /\ energy = NoEnergy
    /\ twin = NoTwin
    /\ ini = NoIni
    /\ config = NoConfig
    /\ trajectory = NoTrajectory

\* one call, from entry to return
NextRKF == RKF_Enter \/ RKF_Stage \/ RKF_Return

SpecRKF == InitRKF /\ [][NextRKF]_vars

----------------------------------------------------------------------------
(* simulator.rs: Simulator                                                 *)

\* the number of digits after the point in "{:.8}"
Precision == 8

\* what is left of r/d after the first j decimal digits, times d
RECURSIVE Remainder(_, _, _)
Remainder(r, d, j) == IF j = 0 THEN r ELSE (Remainder(r, d, j - 1) * 10) % d

\* the j-th decimal digit of r/d, 0 <= r < d
DecimalDigit(r, d, j) == (Remainder(r, d, j - 1) * 10) \div d

\* one unit added at decimal place p, the carry going left; place 0 is the
\* integer part
RECURSIVE RoundUp(_, _)
RoundUp(f, p) ==
    IF p = 0 THEN [f EXCEPT !.int = @ + 1]
    ELSE IF f.frac[p] < 9 THEN [f EXCEPT !.frac[p] = @ + 1]
    ELSE RoundUp([f EXCEPT !.frac[p] = 0], p - 1)

\* format!("{:.8}", x): sign, integer part and eight decimal digits of x,
\* rounded to the nearest, a tie to the even digit; a value that is not
\* finite prints as a word ("NaN", "inf") with no digits.  The sign is
\* printed for every negative value, also one that rounds to zero.
Format8(x) ==
    IF ~IsFinite(x) THEN [neg |-> FALSE, int |-> 0, frac |-> << >>]
    ELSE LET n == IAbs(x[1])
             d == x[2]
             r == n % d
             D(j) == DecimalDigit(r, d, j)
             trunc == [neg |-> x[1] < 0, int |-> n \div d,
                       frac |-> <<D(1), D(2), D(3), D(4), D(5), D(6), D(7), D(8)>>]
             rest == Remainder(r, d, Precision)
         IN  IF 2 * rest > d \/ (2 * rest = d /\ D(Precision) % 2 = 1)
             THEN RoundUp(trunc, Precision)
             ELSE trunc

\* the header line of with_output, lines 53-58: "time", then for every body
\* index idx from 0 the three names body{idx}_x, body{idx}_y, body{idx}_z
RECURSIVE HeaderFrom(_, _)
HeaderFrom(idx, n) ==
    IF idx >= n THEN << >>
    ELSE << "body" \o ToString(idx) \o "_x", "body" \o ToString(idx) \o "_y",
            "body" \o ToString(idx) \o "_z" >> \o HeaderFrom(idx + 1, n)

header(bs) == << "time" >> \o HeaderFrom(0, Len(bs))

\* the line of write_csv_row_internal, lines 118-124: the time, then the
\* three position components of every body in ensemble order
RECURSIVE PositionFields(_, _)
PositionFields(bs, i) ==
    IF i > Len(bs) THEN << >>
    ELSE << Format8(bs[i].position[1]), Format8(bs[i].position[2]),
            Format8(bs[i].position[3]) >> \o PositionFields(bs, i + 1)

write_csv_row_internal(t, bs) == << Format8(t) >> \o PositionFields(bs, 1)

\* the positions of the bodies, in ensemble order
Positions(bs) == [i \in 1..Len(bs) |-> bs[i].position]

\* how Simulator::new reports its construction
ByNew == [by |-> "new", create_ok |-> TRUE, header_ok |-> TRUE, result |-> "Ok"]

\* the fields every constructor sets, and the locals of a step not yet taken
Constructed(bs, d) ==
    /\ bodies = bs
    /\ dt = d
    /\ time = Zero
    /\ derivative_fn = "compute_forces"
    /\ stage = 0
    /\ initial_bodies = << >>
    /\ k = << >>
    /\ ret = <<Zero, Zero>>
    /\ evals = << >>
    /\ entry = bs
    /\ steps = 0
    /\ writes = << >>
    /\ run = NoRun
    /\ energy = NoEnergy
    /\ ini = NoIni
    /\ config = NoConfig
    /\ trajectory = NoTrajectory

\* Simulator::new(bodies, dt)
Simulator_new(bs, d) ==
    /\ Constructed(bs, d)
    /\ created = ByNew
    /\ output_file = "None"
    /\ file = << >>
    /\ pc = "idle"

with_output_Result_Unchecked(create_ok, header_ok) ==
    IF create_ok THEN "Ok" ELSE "Err"

\* the two `?` of with_output, lines 50 and 59: the error of File::create
\* or of the writeln! of the header is returned in place of a Simulator
with_output_Result(create_ok, header_ok) ==
    IF create_ok /\ header_ok THEN "Ok" ELSE "Err"

\* Simulator::with_output(bodies, dt, output_path), File::create and the
\* writeln! of the header succeeding or not.  File::create leaves the file
\* empty; a failed writeln! is taken to leave nothing of its line.
with_output(bs, d, create_ok, header_ok) ==
    LET result == with_output_Result(create_ok, header_ok)
    IN  /\ Constructed(bs, d)
        /\ created = [by |-> "with_output", create_ok |-> create_ok,
                      header_ok |-> header_ok, result |-> result]
        /\ file = IF create_ok /\ header_ok THEN << header(bs) >> ELSE << >>
        /\ output_file = IF result = "Ok" THEN "Some" ELSE "None"
        /\ pc = IF result = "Ok" THEN "idle" ELSE "no_simulator"

\* the states in which a constructor leaves the program
Init ==
    /\ twin = NoTwin
    /\ \E bs \in { e \in Ensembles : Clustered(e) }, d \in DtValues :
          \/ Simulator_new(bs, d)
          \/ \E create_ok, header_ok \in BOOLEAN :
                with_output(bs, d, create_ok, header_ok)

NextTime_Unit(t, d) == RAdd(t, R(1))

\* self.time += self.dt
NextTime(t, d) == RAdd(t, d)

StepSize_Adapted(d, err) == IF RLt(err[1], Rat(1, 10)) THEN RMul(d, R(2)) ELSE d

\* line 106: the pair RungeKuttaFehlberg::step returns is dropped, so
\* self.dt is after the step what it was before
StepSize(d, err) == d

\* the value of a set of one element
TheOne(S) == CHOOSE x \in S : TRUE

\* the iterations of `for stage in 1..6` from stg on, as one computation:
\* the ensemble and the k values it ends with (the sets of one element bind
\* each intermediate result to its value)
RECURSIVE StageLoop(_, _, _, _, _, _)
StageLoop(cur, init, kk, stg, h, fn) ==
    IF stg >= StageLoopEnd THEN <<cur, kk>>
    ELSE TheOne(UNION {
            { StageLoop(after, init, kk2, stg + 1, h, fn) :
                kk2 \in { [kk EXCEPT ![stg + 1] = KRow(after, h)] } } :
            after \in { Derivative(fn, StageState(cur, init, kk, stg)) } })

\* RungeKuttaFehlberg::step as one computation: the ensemble it leaves and
\* the pair it returns
RKF_step(bs, h, fn) ==
    TheOne(UNION {
        UNION {
            { << FinalState(end[1], bs, end[2]), ErrorEstimate(end[2], Len(bs)) >> :
                end \in { StageLoop(after, bs, kk, 1, h, fn) } } :
            kk \in { [ZeroK(Len(bs)) EXCEPT ![1] = KRow(after, h)] } } :
        after \in { Derivative(fn, bs) } })

AfterRowWrite_Fatal(ok) == IF ok THEN "idle" ELSE "panicked"

\* `let _ = self.write_csv_row_internal();`: the Result is dropped and step
\* returns to its caller
AfterRowWrite(ok) == "idle"

\* Simulator::step of the second Simulator, its row write succeeding or not
TwinAfterStep(tw, ok2) ==
    IF ~tw.present THEN tw
    ELSE TheOne({ [tw EXCEPT !.bodies = stepped[1],
                             !.time = NextTime(tw.time, tw.dt),
                             !.dt = StepSize(tw.dt, stepped[2]),
                             !.emitted = Append(@, write_csv_row_internal(
                                                      NextTime(tw.time, tw.dt), stepped[1])),
                             !.pc = AfterRowWrite(ok2)] :
                  stepped \in { RKF_step(tw.bodies, tw.dt, "compute_forces") } })

\* Simulator::step after self.integrator.step(..) has returned: the time is
\* advanced, and with a sink the row of the new state is written, the write
\* succeeding or failing (a failed writeln! is taken to leave nothing of its
\* line)
Simulator_step ==
    /\ pc = "returned"
    /\ time' = NextTime(time, dt)
    /\ IF output_file = "Some"
       THEN \E ok \in BOOLEAN :
               /\ file' = IF ok THEN Append(file, write_csv_row_internal(time', bodies))
                                ELSE file
               /\ writes' = Append(writes, [ok |-> ok, time |-> time',
                                          positions |-> Positions(bodies)])
               /\ pc' = AfterRowWrite(ok)
       ELSE /\ UNCHANGED <<file, writes>>
            /\ pc' = "idle"
    /\ dt' = StepSize(dt, ret)
    /\ steps' = steps + 1
    /\ run' = IF run.status = "running" THEN [run EXCEPT !.i = @ + 1] ELSE run
    /\ \E ok2 \in BOOLEAN : twin' = TwinAfterStep(twin, ok2)
    /\ UNCHANGED <<bodies, derivative_fn, stage, initial_bodies, k, ret, evals,
                   entry, output_file, created, energy, ini, config, trajectory>>

\* Simulator::run(num_steps) is entered; the iterations of its loop are the
\* calls of step above, run.i counting them
Simulator_run ==
    /\ pc = "idle"
    /\ run.status # "running"
    /\ \E num_steps \in 0..(MaxSteps - steps) :
          run' = [status |-> "running", num_steps |-> num_steps, i |-> 0,
                  steps0 |-> steps]
    /\ UNCHANGED <<bodies, time, dt, derivative_fn, pc, stage, initial_bodies, k, ret,
                   evals, entry, steps, output_file, file, writes, created, energy,
                   twin, ini, config, trajectory>>

\* the range of the loop of Simulator::run is exhausted: run returns, and
\* its locals are gone
run_Return ==
    /\ pc = "idle"
    /\ run.status = "running"
    /\ ~RunContinues(run)
    /\ run' = NoRun
    /\ UNCHANGED <<bodies, time, dt, derivative_fn, pc, stage, initial_bodies, k, ret,
                   evals, entry, steps, output_file, file, writes, created, energy,
                   twin, ini, config, trajectory>>

\* Simulator::set_dt
set_dt ==
    /\ pc = "idle"
    /\ run.status # "running"
    /\ \E d \in DtValues : d # dt /\ dt' = d
    /\ UNCHANGED <<bodies, time, derivative_fn, pc, stage, initial_bodies, k, ret,
                   evals, entry, steps, output_file, file, writes, created, run,
                   energy,
                   twin, ini, config, trajectory>>

\* Simulator::bodies_mut, and the caller writing the (pub) acceleration
\* fields through the slice it returns
bodies_mut ==
    /\ pc = "idle"
    /\ run.status # "running"
    /\ \E a \in StaleAccelerations :
          /\ bodies' = WithAccelerations(bodies, a)
          /\ bodies' # bodies
    /\ UNCHANGED <<time, dt, derivative_fn, pc, stage, initial_bodies, k, ret,
                   evals, entry, steps, output_file, file, writes, created, run,
                   energy,
                   twin, ini, config, trajectory>>

Next ==
    \/ RKF_Enter
    \/ RKF_Stage
    \/ RKF_Return
    \/ Simulator_step
    \/ Simulator_run
    \/ run_Return
    \/ set_dt
    \/ bodies_mut

Spec == Init /\ [][Next]_vars

----------------------------------------------------------------------------
(* Claims about RungeKuttaFehlberg::step and Simulator::step               *)

\* component dim (1..6) of the state vector [x, y, z, vx, vy, vz] of a body
StateComponent(body, dim) ==
    IF dim <= 3 THEN body.position[dim] ELSE body.velocity[dim - 3]

\* the standard RKF45 coupling rows of stages 1..5, as the claim lists them
StandardRow(stg) ==
    CASE stg = 1 -> << Rat(1, 4) >>
      [] stg = 2 -> << Rat(3, 32), Rat(9, 32) >>
      [] stg = 3 -> << Rat(1932, 2197), Rat(-7200, 2197), Rat(7296, 2197) >>
      [] stg = 4 -> << Rat(439, 216), R(-8), Rat(3680, 513), Rat(-845, 4104) >>
      [] stg = 5 -> << Rat(-8, 27), R(2), Rat(-3544, 2565), Rat(1859, 4104),
                      Rat(-11, 40) >>

\* S0 + sum over prev < stg of row[prev] * k[prev], for one component
RECURSIVE PlusRow(_, _, _, _, _)
PlusRow(base, row, i, dim, p) ==
    IF p > Len(row) THEN base
    ELSE PlusRow(RAdd(base, RMul(row[p], k[p][i][dim])), row, i, dim, p + 1)

\* C1: every stage s in 1..5 evaluates the derivative function at
\* S0 + sum over prev < s of a[s][prev] * k[prev], a[s] being the standard
\* RKF45 row of stage s itself, with no offset of an earlier stage left.
C1_StageStates ==
    \A n \in 1..Len(evals) :
        evals[n].stage >= 1 =>
            \A i \in 1..Len(entry) : \A dim \in 1..6 :
                StateComponent(evals[n].at[i], dim)
                  = PlusRow(StateComponent(entry[i], dim),
                            StandardRow(evals[n].stage), i, dim, 1)

\* sum over the six stages of w[stage] * k[stage][i][dim]
SixStageSum(w, i, dim) ==
    RAdd(RAdd(RAdd(RAdd(RAdd(RMul(w[1], k[1][i][dim]), RMul(w[2], k[2][i][dim])),
                             RMul(w[3], k[3][i][dim])),
                        RMul(w[4], k[4][i][dim])),
                   RMul(w[5], k[5][i][dim])),
         RMul(w[6], k[6][i][dim]))

\* C2: when step returns, every state component of every body is its value
\* on entry plus the b5-weighted sum of the six k values of that component;
\* nothing of an intermediate stage remains in position or velocity.
C2_FifthOrderUpdate ==
    pc = "returned" =>
        /\ Len(bodies) = Len(entry)
        /\ \A i \in 1..Len(entry) : \A dim \in 1..6 :
              StateComponent(bodies[i], dim)
                = RAdd(StateComponent(entry[i], dim), SixStageSum(b5, i, dim))

C2_Witness ==
    /\ pc = "returned" /\ Len(bodies) = 2 /\ derivative_fn = "uniform_field"
    /\ \A i \in 1..2 :
          /\ bodies[i].position # entry[i].position
          /\ bodies[i].velocity # entry[i].velocity
          /\ evals[6].at[i].position # entry[i].position
          /\ evals[6].at[i].position # bodies[i].position

\* C3: when step returns, every body's acceleration is the one computed by
\* the sixth (last) derivative evaluation of the step.
C3_StageSixAcceleration ==
    pc = "returned" =>
        \A i \in 1..Len(bodies) :
            bodies[i].acceleration = evals[Len(evals)].out[i].acceleration

\* |sum_s b5[s]*k[s][c] - sum_s b4[s]*k[s][c]| for body i, component dim
Discrepancy(i, dim) == RAbs(RSub(SixStageSum(b5, i, dim), SixStageSum(b4, i, dim)))

\* C4: step returns a pair (e, e), e being the maximum over bodies and
\* components of |sum b5*k - sum b4*k|: no such difference exceeds e, e is
\* one of them unless it is 0, e is never negative, and e is 0 for an empty
\* ensemble.
C4_ErrorEstimate ==
    pc = "returned" =>
        /\ ret[1] = ret[2]
        /\ ~RLt(ret[1], Zero)
        /\ \A i \in 1..Len(bodies) : \A dim \in 1..6 : ~RLt(ret[1], Discrepancy(i, dim))
        /\ \/ ret[1] = Zero
           \/ \E i \in 1..Len(bodies) : \E dim \in 1..6 : ret[1] = Discrepancy(i, dim)
        /\ Len(bodies) = 0 => ret[1] = Zero

C4_Witness ==
    /\ pc = "returned" /\ Len(bodies) = 2
    /\ RLt(Zero, ret[1])
    /\ \E i \in 1..2 : \E dim \in 1..6 : RLt(Discrepancy(i, dim), ret[1])

\* every acceleration the derivative function has produced in this step is 0
DerivativesAllZero ==
    \A n \in 1..Len(evals) : \A i \in 1..Len(evals[n].out) :
        evals[n].out[i].acceleration = <<Zero, Zero, Zero>>

\* C9: for an ensemble of 0 or 1 bodies Simulator::step never panics (every
\* index it is about to use is in range), every acceleration the derivative function produces
\* is zero, and the step ends by advancing time by dt.
C9_DegenerateEnsemble ==
    /\ [](Len(bodies) <= 1 =>
            /\ pc # "panicked"
            /\ (pc = "stages" /\ stage < StageLoopEnd) => StageInRange(stage)
            /\ DerivativesAllZero)
    /\ [][(Len(bodies) <= 1 /\ pc = "returned") =>
            (pc' = "idle" /\ time' = RAdd(time, dt) /\ steps' = steps + 1)]_vars

C9_Witness ==
    /\ Len(bodies) = 1 /\ pc = "idle" /\ steps >= 1
    /\ Len(evals) = 6
    /\ entry[1].acceleration # <<Zero, Zero, Zero>>
    /\ bodies[1].position # entry[1].position
    /\ time # Zero

\* C10: one call of step invokes the derivative function exactly 6 times,
\* once per stage and in the order of the stages 0..5, whatever the ensemble.
C10_SixEvaluations ==
    /\ \A n \in 1..Len(evals) : evals[n].stage = n - 1
    /\ pc = "stages" => Len(evals) = stage /\ stage <= 6
    /\ pc = "returned" => Len(evals) = 6

C10_Witness ==
    /\ pc = "returned" /\ Len(evals) = 6 /\ Len(bodies) = 2
    /\ derivative_fn = "uniform_field"

----------------------------------------------------------------------------
(* compute_forces as a function of its argument: the ensemble is drawn     *)
(* from bounded sets and the function is applied to it, twice.             *)

MaxForceBodies == 3

\* corners of a 3-4-5 triangle: every pairwise distance is 0, 3, 4 or 5
ForcePositions == { <<R(0), R(0), R(0)>>, <<R(3), R(0), R(0)>>, <<R(0), R(4), R(0)>> }

ForceBodies ==
    { [mass |-> m, position |-> p, velocity |-> <<R(1), R(-2), R(3)>>,
       acceleration |-> <<Zero, Zero, Zero>>] :
        m \in Masses, p \in ForcePositions }

ForceEnsembles ==
    { WithAccelerations(bs, a) :
        bs \in UNION { [1..n -> ForceBodies] : n \in 0..MaxForceBodies },
        a \in StaleAccelerations }

InitForces ==
    /\ bodies \in ForceEnsembles
    /\ entry = bodies
    /\ evals = << >>
    /\ pc = "forces"
    /\ derivative_fn = "compute_forces"
    /\ time = Zero
    /\ dt = Zero
    /\ stage = 0
    /\ initial_bodies = << >>
    /\ k = << >>
    /\ ret = <<Zero, Zero>>
    /\ steps = 0
    /\ output_file = "None"
    /\ file = << >>
    /\ writes = << >>
    /\ created = [by |-> "new", create_ok |-> TRUE, header_ok |-> TRUE, result |-> "Ok"]
    /\ run = NoRun
    /\ energy = NoEnergy
    /\ twin = NoTwin
    /\ ini = NoIni
    /\ config = NoConfig
    /\ trajectory = NoTrajectory

\* one call compute_forces(&mut bodies)
CallComputeForces ==
    /\ pc = "forces"
    /\ steps < 2
    /\ bodies' = compute_forces(bodies)
    /\ evals' = Append(evals, [stage |-> steps, at |-> bodies, out |-> bodies'])
    /\ steps' = steps + 1
    /\ UNCHANGED <<time, dt, derivative_fn, pc, stage, initial_bodies, k, ret, entry,
                   output_file, file,
                   writes, created, run, energy,
                   twin, ini, config, trajectory>>

NextForces == CallComputeForces

SpecForces == InitForces /\ [][NextForces]_vars

\* sum over the ensemble of mass * acceleration[c], bodies i..Len(bs)
RECURSIVE TotalForce(_, _, _)
TotalForce(bs, c, i) ==
    IF i > Len(bs) THEN Zero
    ELSE RAdd(RMul(bs[i].mass, bs[i].acceleration[c]), TotalForce(bs, c, i + 1))

\* the pair (i, j) alone acting on a two-body ensemble at rest
PairAlone(bs, i, j) == compute_forces(<<bs[i], bs[j]>>)

\* C5: Newton's third law.  For every pair at separation > 0 the force the
\* pair puts on i (mass_i times the acceleration it adds to i) is the
\* opposite of the force it puts on j, and after compute_forces the sum over
\* all bodies of mass * acceleration is the zero vector.
C5_ThirdLaw ==
    (pc = "forces" /\ steps >= 1) =>
        /\ \A c \in 1..3 : TotalForce(bodies, c, 1) = Zero
        /\ \A i, j \in 1..Len(bodies) :
              i < j =>
                LET two == PairAlone(entry, i, j)
                IN  \A c \in 1..3 :
                      RMul(two[1].mass, two[1].acceleration[c])
                        = RNeg(RMul(two[2].mass, two[2].acceleration[c]))

C5_Witness ==
    /\ pc = "forces" /\ steps >= 1 /\ Len(bodies) = 3
    /\ \A i, j \in 1..3 : i # j => bodies[i].position # bodies[j].position
    /\ bodies[1].mass # bodies[2].mass
    /\ \A i \in 1..3 : bodies[i].acceleration # <<Zero, Zero, Zero>>

Accelerations(bs) == [i \in 1..Len(bs) |-> bs[i].acceleration]

\* C6: compute_forces overwrites.  The accelerations after the call are a
\* function of the masses and positions alone (the same whatever the
\* acceleration fields held before), and a second call in a row leaves the
\* accelerations of the first.
C6_Overwrites ==
    (pc = "forces" /\ steps >= 1) =>
        /\ \A a \in StaleAccelerations :
              Accelerations(compute_forces(WithAccelerations(entry, a)))
                = Accelerations(evals[1].out)
        /\ steps = 2 => Accelerations(evals[2].out) = Accelerations(evals[1].out)

C6_Witness ==
    /\ pc = "forces" /\ steps = 2 /\ Len(bodies) >= 2
    /\ \A i \in 1..Len(bodies) :
          /\ entry[i].acceleration # <<Zero, Zero, Zero>>
          /\ bodies[i].acceleration # <<Zero, Zero, Zero>>
          /\ bodies[i].acceleration # entry[i].acceleration

\* C7: compute_forces writes the acceleration fields only: the number and
\* order of the bodies and every mass, position and velocity are unchanged.
C7_Frame ==
    (pc = "forces" /\ steps >= 1) =>
        /\ Len(bodies) = Len(entry)
        /\ \A i \in 1..Len(entry) :
              /\ bodies[i].mass = entry[i].mass
              /\ bodies[i].position = entry[i].position
              /\ bodies[i].velocity = entry[i].velocity

C7_Witness ==
    /\ pc = "forces" /\ steps >= 1 /\ Len(bodies) = 3
    /\ \A i \in 1..3 : bodies[i].acceleration # entry[i].acceleration

\* the net acceleration of body i by the law of gravitation: the sum over the
\* bodies j at another place of G * m_j * (p_j - p_i) / |p_j - p_i|^3
RECURSIVE NetAcceleration(_, _, _, _)
NetAcceleration(bs, i, c, j) ==
    IF j > Len(bs) THEN Zero
    ELSE LET rest == NetAcceleration(bs, i, c, j + 1)
             d == distance_to(bs[i], bs[j])
         IN  IF j = i \/ bs[j].position = bs[i].position THEN rest
             ELSE RAdd(RDiv(RMul(RMul(G, bs[j].mass), vector_to(bs[i], bs[j])[c]),
                            RMul(d, RMul(d, d))),
                       rest)

\* C8: two bodies at the same coordinates add nothing to each other (the pair
\* is skipped, nothing is divided by zero, every acceleration is finite) and
\* each still gets the contribution of every body at a non-zero distance.
C8_ZeroDistance ==
    (pc = "forces" /\ steps >= 1) =>
        \A i \in 1..Len(bodies) : \A c \in 1..3 :
            /\ IsFinite(bodies[i].acceleration[c])
            /\ bodies[i].acceleration[c] = NetAcceleration(entry, i, c, 1)

C8_Witness ==
    /\ pc = "forces" /\ steps >= 1 /\ Len(bodies) = 3
    /\ bodies[1].position = bodies[2].position
    /\ bodies[3].position # bodies[1].position
    /\ bodies[1].acceleration # <<Zero, Zero, Zero>>
    /\ bodies[2].acceleration = bodies[1].acceleration
    /\ bodies[3].acceleration # <<Zero, Zero, Zero>>

----------------------------------------------------------------------------
(* Claims about the Simulator controller                                   *)

\* C11: time is 0 from a successful Simulator::new or with_output until the
\* first step completes; every completed step adds the step size of that
\* moment to time, and nothing else changes time; when run(n), entered on a
\* simulator that has not stepped yet, returns, time is n * dt.
C11_TimeBookkeeping ==
    /\ [](created.result = "Ok" /\ steps = 0 => time = Zero)
    /\ [][steps' = steps + 1 => time' = RAdd(time, dt) /\ dt' = dt]_vars
    /\ [][time' # time => steps' = steps + 1]_vars
    /\ [][(run.status = "running" /\ run'.status # "running" /\ run.steps0 = 0)
            => time' = RMul(R(run.num_steps), dt')]_vars

C11_Witness ==
    /\ created.by = "with_output" /\ pc = "idle"
    /\ run.status = "running" /\ run.steps0 = 0
    /\ run.num_steps = 2 /\ run.i = 2
    /\ dt = Rat(1, 2) /\ time = R(1)

\* C12: while run(n) is in progress the steps completed since it began are
\* the iterations its loop has made, never more than n; it returns only
\* after n of them, whatever the writes of the rows did, and returning
\* changes nothing; run(0) makes no step and returns with the state as it
\* found it.
C12_RunExactly ==
    /\ [](run.status = "running" =>
            steps = run.steps0 + run.i /\ run.i <= run.num_steps)
    /\ [][(run.status = "running" /\ run'.status # "running") =>
            /\ run.i = run.num_steps
            /\ steps' = run.steps0 + run.num_steps
            /\ UNCHANGED <<bodies, time, dt, file, output_file, pc>>]_vars
    /\ [][(run.status = "running" /\ run.num_steps = 0) =>
            /\ run'.status # "running"
            /\ UNCHANGED <<bodies, time, dt, file, output_file, pc, steps>>]_vars

C12_Witness ==
    /\ output_file = "Some" /\ pc = "idle"
    /\ run.status = "running" /\ run.num_steps = 2 /\ run.i = 2
    /\ ~writes[run.steps0 + 1].ok

C14_RowsMatchSteps ==
    output_file = "Some" =>
        /\ Len(file) = 1 + steps
        /\ file[1] = header(bodies)

\* C15: with a sink and N bodies the first line has the 1 + 3N names time,
\* body0_x, body0_y, body0_z, body1_x, ..., and the k-th line after it has
\* 1 + 3N fields: the time after the k-th step, then the x, y, z of every
\* body after the k-th step, in ensemble order, each to eight decimals.
C15_RowFormat ==
    output_file = "Some" =>
        LET N == Len(bodies)
        IN  /\ Len(file[1]) = 1 + 3 * N
            /\ file[1][1] = "time"
            /\ \A i \in 1..N :
                  /\ file[1][3 * i - 1] = "body" \o ToString(i - 1) \o "_x"
                  /\ file[1][3 * i] = "body" \o ToString(i - 1) \o "_y"
                  /\ file[1][3 * i + 1] = "body" \o ToString(i - 1) \o "_z"
            /\ \A n \in 1..(Len(file) - 1) :
                  /\ Len(file[n + 1]) = 1 + 3 * N
                  /\ file[n + 1][1] = Format8(writes[n].time)
                  /\ \A i \in 1..N : \A c \in 1..3 :
                        file[n + 1][3 * i - 2 + c] = Format8(writes[n].positions[i][c])

\* C16: a step whose row write fails returns to its caller as any other: the
\* integrated bodies stay, time is advanced by dt, the step counts, the file
\* and the sink are as they were; and every completed step has attempted
\* its write, those after a failed one too.
C16_WriteFailureSwallowed ==
    /\ [](output_file = "Some" => Len(writes) = steps /\ pc # "panicked")
    /\ [][(Len(writes') = Len(writes) + 1 /\ ~writes'[Len(writes')].ok) =>
            /\ pc = "returned" /\ pc' = "idle"
            /\ time' = RAdd(time, dt)
            /\ steps' = steps + 1
            /\ UNCHANGED <<bodies, dt, file, output_file>>]_vars

C16_Witness ==
    /\ output_file = "Some" /\ pc = "idle" /\ steps = 2
    /\ ~writes[1].ok /\ writes[2].ok
    /\ Len(file) = 2
    /\ Len(bodies) = 2 /\ bodies[1].position # entry[1].position

\* C17: with_output gives an error exactly when File::create or the write
\* of the header fails, and then there is no Simulator: nothing has run and
\* nothing can; when it succeeds the first line of the file is the header in
\* every state, and before the first step time is 0 and the header is the
\* only line.
C17_WithOutput ==
    created.by = "with_output" =>
        /\ created.result = "Err" <=> (~created.create_ok \/ ~created.header_ok)
        /\ created.result = "Err" =>
              /\ pc = "no_simulator" /\ output_file = "None"
              /\ steps = 0 /\ evals = << >> /\ writes = << >> /\ time = Zero
              /\ run.status = "none"
        /\ created.result = "Ok" =>
              /\ pc # "no_simulator" /\ output_file = "Some"
              /\ Len(file) >= 1 /\ file[1] = header(bodies)
              /\ steps = 0 => (time = Zero /\ Len(file) = 1)

C17_Witness ==
    /\ created.by = "with_output"
    /\ created.create_ok /\ ~created.header_ok
    /\ pc = "no_simulator"
    /\ Len(bodies) = 2

\* C18: no transition of a step or a run (nor any other) changes the number
\* of bodies, the mass found at any index of the ensemble, or the set of
\* fields of a body: what a step changes of a body is among position,
\* velocity and acceleration.
C18_EnsembleFrame ==
    [][/\ Len(bodies') = Len(bodies)
       /\ \A i \in 1..Len(bodies) :
             /\ bodies'[i].mass = bodies[i].mass
             /\ DOMAIN bodies'[i] = {"mass", "position", "velocity", "acceleration"}]_vars

C18_Witness ==
    /\ pc = "idle" /\ steps = 2
    /\ Len(bodies) = 2 /\ bodies[1].mass = R(2) /\ bodies[2].mass = R(1)
    /\ bodies[1].position # entry[1].position
    /\ bodies[2].acceleration # <<Zero, Zero, Zero>>

----------------------------------------------------------------------------
(* simulator.rs: the energy accessors, as functions of the ensemble of a   *)
(* Simulator that Simulator::new has built                                 *)

KineticTerm_NoHalf(body) ==
    RMul(body.mass,
         RAdd(RAdd(RMul(body.velocity[1], body.velocity[1]),
                   RMul(body.velocity[2], body.velocity[2])),
              RMul(body.velocity[3], body.velocity[3])))

\* `0.5 * body.mass * v_squared`
KineticTerm(body) ==
    LET v_squared == RAdd(RAdd(RMul(body.velocity[1], body.velocity[1]),
                               RMul(body.velocity[2], body.velocity[2])),
                          RMul(body.velocity[3], body.velocity[3]))
    IN  RMul(RMul(Rat(1, 2), body.mass), v_squared)

\* `for body in &self.bodies { ke += .. }`
RECURSIVE KineticLoop(_, _, _)
KineticLoop(bs, i, ke) ==
    IF i > Len(bs) THEN ke
    ELSE KineticLoop(bs, i + 1, RAdd(ke, KineticTerm(bs[i])))

kinetic_energy(bs) == KineticLoop(bs, 1, Zero)

PotentialPair_Added(pe, bi, bj) ==
    LET r == distance_to(bi, bj)
    IN  IF RLt(Zero, r) THEN RAdd(pe, RDiv(RMul(RMul(G, bi.mass), bj.mass), r))
        ELSE pe

\* lines 192-195: `if r > 0.0 { pe -= (G * m_i * m_j) / r; }`
PotentialPair(pe, bi, bj) ==
    LET r == distance_to(bi, bj)
    IN  IF RLt(Zero, r) THEN RSub(pe, RDiv(RMul(RMul(G, bi.mass), bj.mass), r))
        ELSE pe

RECURSIVE PotentialLoop(_, _, _, _)
PotentialLoop(bs, pairs, idx, pe) ==
    IF idx > Len(pairs) THEN pe
    ELSE PotentialLoop(bs, pairs, idx + 1,
                       PotentialPair(pe, bs[pairs[idx][1]], bs[pairs[idx][2]]))

potential_energy(bs) == PotentialLoop(bs, PairOrder(Len(bs)), 1, Zero)

total_energy(bs) == RAdd(kinetic_energy(bs), potential_energy(bs))

MaxEnergyBodies == 3

\* mass and velocity of a body: one at rest, and two of different mass moving
EnergyKinds ==
    { <<R(1), <<Zero, Zero, Zero>>>>, <<R(2), <<R(1), R(-2), R(3)>>>>,
      <<R(1), <<R(1), R(-2), R(3)>>>> }

EnergyBodies ==
    { Body_new(mv[1], p, mv[2]) : mv \in EnergyKinds, p \in ForcePositions }

EnergyEnsembles == UNION { [1..n -> EnergyBodies] : n \in 0..MaxEnergyBodies }

InitEnergy == twin = NoTwin /\ \E bs \in EnergyEnsembles : Simulator_new(bs, R(1))

\* one call sim.kinetic_energy()
CallKineticEnergy ==
    /\ pc = "idle"
    /\ energy' = [of |-> "kinetic_energy", value |-> kinetic_energy(bodies)]
    /\ UNCHANGED <<bodies, time, dt, derivative_fn, pc, stage, initial_bodies, k, ret,
                   evals, entry, steps, output_file, file, writes, created, run,
                   twin, ini, config, trajectory>>

\* one call sim.potential_energy()
CallPotentialEnergy ==
    /\ pc = "idle"
    /\ energy' = [of |-> "potential_energy", value |-> potential_energy(bodies)]
    /\ UNCHANGED <<bodies, time, dt, derivative_fn, pc, stage, initial_bodies, k, ret,
                   evals, entry, steps, output_file, file, writes, created, run,
                   twin, ini, config, trajectory>>

\* one call sim.total_energy()
CallTotalEnergy ==
    /\ pc = "idle"
    /\ energy' = [of |-> "total_energy", value |-> total_energy(bodies)]
    /\ UNCHANGED <<bodies, time, dt, derivative_fn, pc, stage, initial_bodies, k, ret,
                   evals, entry, steps, output_file, file, writes, created, run,
                   twin, ini, config, trajectory>>

NextEnergy == CallKineticEnergy \/ CallPotentialEnergy \/ CallTotalEnergy

SpecEnergy == InitEnergy /\ [][NextEnergy]_vars

\* -G * m_i * m_j / distance(i, j), or 0 for a pair at distance 0
PairPotential(i, j) ==
    LET r == distance_to(bodies[i], bodies[j])
    IN  IF r = Zero THEN Zero
        ELSE RNeg(RDiv(RMul(G, RMul(bodies[i].mass, bodies[j].mass)), r))

\* the sum of PairPotential over all ordered pairs (i, j), i # j, from (i, j) on
RECURSIVE OrderedPairSum(_, _)
OrderedPairSum(i, j) ==
    IF i > Len(bodies) THEN Zero
    ELSE IF j > Len(bodies) THEN OrderedPairSum(i + 1, 1)
    ELSE RAdd(IF i = j THEN Zero ELSE PairPotential(i, j), OrderedPairSum(i, j + 1))

\* C19, as claimed: for two bodies (the masses drawn are positive) the value
\* potential_energy returns is below 0 and is -G * m1 * m2 / r, r their
\* distance; for any ensemble, counted over the ordered pairs, twice the value
\* is the sum of -G * m_i * m_j / distance(i, j) over the pairs at non-zero
\* distance.
C19_TwoBodyAlwaysNegative ==
    energy.of = "potential_energy" =>
        /\ Len(bodies) = 2 =>
              /\ RLt(energy.value, Zero)
              /\ energy.value
                   = RNeg(RDiv(RMul(G, RMul(bodies[1].mass, bodies[2].mass)),
                               distance_to(bodies[1], bodies[2])))
        /\ RAdd(energy.value, energy.value) = OrderedPairSum(1, 1)

\* C19, amended: for two bodies at different places the value
\* potential_energy returns is below 0 and is -G * m1 * m2 / r; for two
\* bodies at the same place it is 0; for any ensemble, counted over the
\* ordered pairs, twice the value is the sum of -G * m_i * m_j /
\* distance(i, j) over the pairs at non-zero distance, so every unordered
\* pair counts once.
C19_PotentialEnergy ==
    energy.of = "potential_energy" =>
        /\ Len(bodies) = 2 =>
              IF bodies[1].position # bodies[2].position
              THEN /\ RLt(energy.value, Zero)
                   /\ energy.value
                        = RNeg(RDiv(RMul(G, RMul(bodies[1].mass, bodies[2].mass)),
                                    distance_to(bodies[1], bodies[2])))
              ELSE energy.value = Zero
        /\ RAdd(energy.value, energy.value) = OrderedPairSum(1, 1)

C19_Witness ==
    /\ energy.of = "potential_energy"
    /\ Len(bodies) = 3
    /\ bodies[1].position = bodies[2].position
    /\ bodies[3].position # bodies[1].position
    /\ bodies[1].mass # bodies[3].mass
    /\ RLt(energy.value, Zero)

\* sum over the bodies from i on of mass * velocity[c]^2
RECURSIVE ComponentSum(_, _)
ComponentSum(c, i) ==
    IF i > Len(bodies) THEN Zero
    ELSE RAdd(RMul(bodies[i].mass, RMul(bodies[i].velocity[c], bodies[i].velocity[c])),
              ComponentSum(c, i + 1))

\* sum over the bodies of 0.5 * mass * |velocity|^2, summed by component
HalfMassSpeedSquared ==
    RMul(Rat(1, 2), RAdd(RAdd(ComponentSum(1, 1), ComponentSum(2, 1)), ComponentSum(3, 1)))

\* C20: the value kinetic_energy returns is the sum over the bodies of
\* 0.5 * mass * |velocity|^2, 0 for no bodies and for bodies all at rest;
\* the value total_energy returns is that sum plus the potential energy of
\* the same ensemble (half the sum over the ordered pairs).
C20_KineticAndTotal ==
    /\ energy.of = "kinetic_energy" =>
          /\ energy.value = HalfMassSpeedSquared
          /\ Len(bodies) = 0 => energy.value = Zero
          /\ (\A i \in 1..Len(bodies) : bodies[i].velocity = <<Zero, Zero, Zero>>)
                => energy.value = Zero
    /\ energy.of = "total_energy" =>
          energy.value = RAdd(HalfMassSpeedSquared, RMul(Rat(1, 2), OrderedPairSum(1, 1)))

C20_Witness ==
    /\ energy.of = "total_energy"
    /\ Len(bodies) = 3
    /\ bodies[1].velocity = <<Zero, Zero, Zero>>
    /\ bodies[2].velocity # <<Zero, Zero, Zero>>
    /\ bodies[1].position # bodies[2].position
    /\ energy.value # kinetic_energy(bodies)
    /\ RLt(Zero, energy.value)

----------------------------------------------------------------------------
(* Two Simulators built by with_output from the same bodies and dt, each   *)
(* with its own file, and driven by the same calls of step and run         *)

\* the second Simulator as with_output(bs, d, ..) returns it
TwinOf(bs, d) ==
    [present |-> TRUE, bodies |-> bs, time |-> Zero, dt |-> d, pc |-> "idle",
     emitted |-> << >>]

InitTwin ==
    \E bs \in { e \in Ensembles : Clustered(e) }, d \in DtValues :
        /\ with_output(bs, d, TRUE, TRUE)
        /\ twin = TwinOf(bs, d)

NextTwin ==
    \/ RKF_Enter
    \/ RKF_Stage
    \/ RKF_Return
    \/ Simulator_step
    \/ Simulator_run
    \/ run_Return

SpecTwin == InitTwin /\ [][NextTwin]_vars

\* the line the first Simulator handed to its file in its n-th step
EmittedRow(n) ==
    write_csv_row_internal(writes[n].time,
        [i \in 1..Len(writes[n].positions) |-> [position |-> writes[n].positions[i]]])

----------------------------------------------------------------------------
(* Uniform motion                                                          *)

\* every acceleration the derivative function has produced for body i in
\* this step is 0
DerivativesZeroFor(i) ==
    \A n \in 1..Len(evals) : evals[n].out[i].acceleration = <<Zero, Zero, Zero>>

\* the place reached from p with velocity v in the time h
Drifted(p, v, h) ==
    << RAdd(p[1], RMul(h, v[1])), RAdd(p[2], RMul(h, v[2])), RAdd(p[3], RMul(h, v[3])) >>

\* C28: when every derivative evaluation of a step yields zero acceleration
\* for a body, RungeKuttaFehlberg::step leaves that body's velocity unchanged
\* and moves its position by exactly dt * velocity (the 5th order weights sum
\* to 1), and the returned error estimate is 0 if this holds for all bodies.
C28_UniformMotion ==
    pc = "returned" =>
        /\ \A i \in 1..Len(bodies) :
              DerivativesZeroFor(i) =>
                  /\ bodies[i].velocity = entry[i].velocity
                  /\ bodies[i].position = Drifted(entry[i].position, entry[i].velocity, dt)
        /\ (\A i \in 1..Len(bodies) : DerivativesZeroFor(i)) => ret = <<Zero, Zero>>

C28_Witness ==
    /\ pc = "returned" /\ Len(evals) = 6 /\ Len(bodies) = 2
    /\ \A i \in 1..2 : DerivativesZeroFor(i)
    /\ entry[1].velocity # <<Zero, Zero, Zero>>
    /\ entry[1].acceleration # <<Zero, Zero, Zero>>
    /\ bodies[1].position # entry[1].position
    /\ dt = Rat(1, 2)

----------------------------------------------------------------------------
(* config.rs: the text of an INI file, a line being the sequence of its    *)
(* characters                                                              *)

Whitespace == { " ", "\t" }

RECURSIVE trim_start(_)
trim_start(s) ==
    IF s # << >> /\ Head(s) \in Whitespace THEN trim_start(Tail(s)) ELSE s

RECURSIVE trim_end(_)
trim_end(s) ==
    IF s # << >> /\ s[Len(s)] \in Whitespace
    THEN trim_end(SubSeq(s, 1, Len(s) - 1)) ELSE s

\* str::trim
trim(s) == trim_end(trim_start(s))

\* str::starts_with and str::ends_with
starts_with(s, p) == Len(s) >= Len(p) /\ SubSeq(s, 1, Len(p)) = p

ends_with(s, p) == Len(s) >= Len(p) /\ SubSeq(s, Len(s) - Len(p) + 1, Len(s)) = p

\* str::find(char): the place of the first occurrence, 0 for None
find(s, c) ==
    IF \E i \in 1..Len(s) : s[i] = c
    THEN CHOOSE i \in 1..Len(s) : s[i] = c /\ \A j \in 1..(i - 1) : s[j] # c
    ELSE 0

UpperCase == << "A", "B", "C", "D", "E", "F", "G", "H", "I", "J", "K", "L", "M", "N", "O", "P", "Q", "R", "S", "T", "U", "V", "W", "X", "Y", "Z" >>

LowerCase == << "a", "b", "c", "d", "e", "f", "g", "h", "i", "j", "k", "l", "m", "n", "o", "p", "q", "r", "s", "t", "u", "v", "w", "x", "y", "z" >>

\* str::to_lowercase, on the letters of ASCII
to_lowercase(s) ==
    [i \in 1..Len(s) |->
        IF \E n \in 1..Len(UpperCase) : UpperCase[n] = s[i]
        THEN LowerCase[CHOOSE n \in 1..Len(UpperCase) : UpperCase[n] = s[i]]
        ELSE s[i]]

DecimalDigits == << "0", "1", "2", "3", "4", "5", "6", "7", "8", "9" >>

IsDigits(s) == \A i \in 1..Len(s) : \E n \in 1..Len(DecimalDigits) : DecimalDigits[n] = s[i]

\* the number a string of decimal digits denotes
RECURSIVE DigitsValue(_, _)
DigitsValue(s, acc) ==
    IF s = << >> THEN acc
    ELSE DigitsValue(Tail(s),
            acc * 10 + (CHOOSE n \in 1..Len(DecimalDigits) : DecimalDigits[n] = Head(s)) - 1)

RECURSIVE PowerOfTen(_)
PowerOfTen(n) == IF n = 0 THEN 1 ELSE 10 * PowerOfTen(n - 1)

PlusInfinity == <<1, 0>>

MinusInfinity == <<-1, 0>>

\* str::parse::<f64>: an optional sign; then inf, infinity or nan in any
\* case, or digits with an optional point and an optional exponent, one
\* digit at least in the mantissa.  Nothing else is a number: no blank, no
\* empty string.
parse_f64(s) ==
    LET signed == s # << >> /\ s[1] \in { "+", "-" }
        neg == s # << >> /\ s[1] = "-"
        rest == IF signed THEN Tail(s) ELSE s
        low == to_lowercase(rest)
        e == find(low, "e")
        mantissa == IF e = 0 THEN rest ELSE SubSeq(rest, 1, e - 1)
        exponent == IF e = 0 THEN << >> ELSE SubSeq(rest, e + 1, Len(rest))
        eneg == exponent # << >> /\ exponent[1] = "-"
        edigits == IF exponent # << >> /\ exponent[1] \in { "+", "-" }
                   THEN Tail(exponent) ELSE exponent
        point == find(mantissa, ".")
        int == IF point = 0 THEN mantissa ELSE SubSeq(mantissa, 1, point - 1)
        frac == IF point = 0 THEN << >> ELSE SubSeq(mantissa, point + 1, Len(mantissa))
        magnitude == Rat(DigitsValue(int \o frac, 0), PowerOfTen(Len(frac)))
        scale == IF e = 0 THEN R(1)
                 ELSE IF eneg THEN Rat(1, PowerOfTen(DigitsValue(edigits, 0)))
                 ELSE R(PowerOfTen(DigitsValue(edigits, 0)))
        value == RMul(magnitude, scale)
    IN  IF low = << "n", "a", "n" >> THEN [ok |-> TRUE, value |-> NonFinite]
        ELSE IF low \in { << "i", "n", "f" >>, << "i", "n", "f", "i", "n", "i", "t", "y" >> }
        THEN [ok |-> TRUE, value |-> IF neg THEN MinusInfinity ELSE PlusInfinity]
        ELSE IF /\ IsDigits(int) /\ IsDigits(frac) /\ Len(int) + Len(frac) >= 1
                /\ e # 0 => (IsDigits(edigits) /\ edigits # << >>)
        THEN [ok |-> TRUE, value |-> IF neg THEN RNeg(value) ELSE value]
        ELSE [ok |-> FALSE, value |-> Zero]

\* BodyData::new
BodyData_new ==
    [mass |-> Zero, position_x |-> Zero, position_y |-> Zero, position_z |-> Zero,
     velocity_x |-> Zero, velocity_y |-> Zero, velocity_z |-> Zero]

\* `self.mass <= 0.0`, false of NaN and of +inf
NonPositiveMass(mass) == IF IsFinite(mass) THEN mass[1] <= 0 ELSE mass[1] < 0

\* BodyData::to_body
to_body(self) ==
    IF NonPositiveMass(self.mass)
    THEN [ok |-> FALSE, body |-> Body_new(Zero, <<Zero, Zero, Zero>>, <<Zero, Zero, Zero>>)]
    ELSE [ok |-> TRUE,
          body |-> Body_new(self.mass,
                            <<self.position_x, self.position_y, self.position_z>>,
                            <<self.velocity_x, self.velocity_y, self.velocity_z>>)]

\* Option<BodyData>
None == [some |-> FALSE, data |-> BodyData_new]

Some(data) == [some |-> TRUE, data |-> data]

\* lines 51-55 and 95-99: the body of the section that ends is pushed if
\* to_body accepts it
PushBody(bs, body_data) ==
    IF body_data.some /\ to_body(body_data.data).ok
    THEN Append(bs, to_body(body_data.data).body)
    ELSE bs

\* line 44
IsSkipped(trimmed) ==
    trimmed = << >> \/ starts_with(trimmed, << "#" >>) \/ starts_with(trimmed, << ";" >>)

\* line 49
IsSectionHeader(trimmed) == starts_with(trimmed, << "[" >>) /\ ends_with(trimmed, << "]" >>)

\* lines 57-58
section_name(trimmed) == SubSeq(trimmed, 2, Len(trimmed) - 1)

IsBodySection(trimmed) ==
    starts_with(to_lowercase(section_name(trimmed)), << "b", "o", "d", "y" >>)

\* line 67
key(trimmed) == to_lowercase(trim(SubSeq(trimmed, 1, find(trimmed, "=") - 1)))

\* the cut at a comment character, lines 71-76
StripAt(value_str, c) ==
    IF find(value_str, c) = 0 THEN value_str
    ELSE trim(SubSeq(value_str, 1, find(value_str, c) - 1))

\* lines 68-76
value_str(trimmed) ==
    StripAt(StripAt(trim(SubSeq(trimmed, find(trimmed, "=") + 1, Len(trimmed))), "#"), ";")

\* the arms of the match, lines 80-86
KeyNames ==
    << [key |-> << "m", "a", "s", "s" >>,
        field |-> "mass"],
       [key |-> << "p", "o", "s", "i", "t", "i", "o", "n", "_", "x" >>,
        field |-> "position_x"],
       [key |-> << "p", "o", "s", "i", "t", "i", "o", "n", "_", "y" >>,
        field |-> "position_y"],
       [key |-> << "p", "o", "s", "i", "t", "i", "o", "n", "_", "z" >>,
        field |-> "position_z"],
       [key |-> << "v", "e", "l", "o", "c", "i", "t", "y", "_", "x" >>,
        field |-> "velocity_x"],
       [key |-> << "v", "e", "l", "o", "c", "i", "t", "y", "_", "y" >>,
        field |-> "velocity_y"],
       [key |-> << "v", "e", "l", "o", "c", "i", "t", "y", "_", "z" >>,
        field |-> "velocity_z"] >>

RecognisedKeys == { KeyNames[n].key : n \in 1..Len(KeyNames) }

FieldName(k0) == KeyNames[CHOOSE n \in 1..Len(KeyNames) : KeyNames[n].key = k0].field

\* lines 78-89: a value that parses is stored in the field its key names
SetField(body, k0, parsed) ==
    IF parsed.ok /\ k0 \in RecognisedKeys
    THEN [body EXCEPT ![FieldName(k0)] = parsed.value]
    ELSE body

\* one iteration of `for line in content.lines()`, lines 41-91, on the
\* pair (bodies, body_data)
ParseLine(bs, body_data, line) ==
    LET trimmed == trim(line)
    IN  IF IsSkipped(trimmed) THEN [bodies |-> bs, body_data |-> body_data]
        ELSE IF IsSectionHeader(trimmed)
        THEN [bodies |-> PushBody(bs, body_data),
              body_data |-> IF IsBodySection(trimmed) THEN Some(BodyData_new) ELSE None]
        ELSE IF body_data.some /\ find(trimmed, "=") # 0
        THEN [bodies |-> bs,
              body_data |-> Some(SetField(body_data.data, key(trimmed),
                                          parse_f64(value_str(trimmed))))]
        ELSE [bodies |-> bs, body_data |-> body_data]

bodies_is_empty_Never(bs) == FALSE

\* line 101
bodies_is_empty(bs) == bs = << >>

\* the defaults of lines 110 and 111
time_step == R(86400)

num_steps == 1000

----------------------------------------------------------------------------
(* main.rs: the configuration file is parsed, line by line, the simulator  *)
(* is created on the bodies found and its run is entered.  The steps of    *)
(* the run are those of Simulator::step above.                             *)

MaxLines == 4

\* the lines a file is made of
ConfigLines ==
    {
      \* [Body1]
      << "[", "B", "o", "d", "y", "1", "]" >>,
      \* [Settings]
      << "[", "S", "e", "t", "t", "i", "n", "g", "s", "]" >>,
      \* mass = 2
      << "m", "a", "s", "s", " ", "=", " ", "2" >>,
      \* Mass=1 ; kg
      << "M", "a", "s", "s", "=", "1", " ", ";", " ", "k", "g" >>,
      \* mass = -1
      << "m", "a", "s", "s", " ", "=", " ", "-", "1" >>,
      \* mass = abc
      << "m", "a", "s", "s", " ", "=", " ", "a", "b", "c" >>,
      \* mass = NaN
      << "m", "a", "s", "s", " ", "=", " ", "N", "a", "N" >>,
      \* position_x = 3 # m
      << "p", "o", "s", "i", "t", "i", "o", "n", "_", "x", " ", "=", " ", "3", " ", "#", " ", "m" >>,
      \* velocity_y = -0.5
      << "v", "e", "l", "o", "c", "i", "t", "y", "_", "y", " ", "=", " ", "-", "0", ".", "5" >>,
      \* # comment
      << "#", " ", "c", "o", "m", "m", "e", "n", "t" >>,
      \* colour = 7
      << "c", "o", "l", "o", "u", "r", " ", "=", " ", "7" >> }

\* the files main may be given: one that cannot be read, and the texts of
\* up to MaxLines lines
IniFiles ==
    { [readable |-> FALSE, lines |-> << >>] }
    \cup { [readable |-> TRUE, lines |-> l] :
            l \in UNION { [1..n -> ConfigLines] : n \in 0..MaxLines } }

NotCreated == [by |-> "none", create_ok |-> FALSE, header_ok |-> FALSE, result |-> "none"]

\* main is entered: there is no Simulator yet
InitConfig ==
    /\ ini \in IniFiles
    /\ config = [at |-> "start", line |-> 0, bodies |-> << >>, body_data |-> None]
    /\ trajectory = NoTrajectory
    /\ bodies = << >>
    /\ dt = Zero
    /\ time = Zero
    /\ derivative_fn = "compute_forces"
    /\ pc = "no_simulator"
    /\ stage = 0
    /\ initial_bodies = << >>
    /\ k = << >>
    /\ ret = <<Zero, Zero>>
    /\ evals = << >>
    /\ entry = << >>
    /\ steps = 0
    /\ output_file = "None"
    /\ file = << >>
    /\ writes = << >>
    /\ created = NotCreated
    /\ run = NoRun
    /\ energy = NoEnergy
    /\ twin = NoTwin

\* parse_ini_file, line 31: fs::read_to_string(path)?
parse_ini_file ==
    /\ config.at = "start"
    /\ config' = IF ini.readable
                 THEN [config EXCEPT !.at = "lines", !.line = 1]
                 ELSE [config EXCEPT !.at = "failed"]
    /\ UNCHANGED <<bodies, time, dt, derivative_fn, pc, stage, initial_bodies, k, ret,
                   evals, entry, steps, output_file, file, writes, created, run,
                   energy, twin, ini, trajectory>>

\* parse_ini_content, lines 40-92: the next line of the content
parse_line ==
    /\ config.at = "lines"
    /\ config.line <= Len(ini.lines)
    /\ config' = TheOne({ [config EXCEPT !.line = @ + 1, !.bodies = after.bodies,
                                         !.body_data = after.body_data] :
                          after \in { ParseLine(config.bodies, config.body_data,
                                                ini.lines[config.line]) } })
    /\ UNCHANGED <<bodies, time, dt, derivative_fn, pc, stage, initial_bodies, k, ret,
                   evals, entry, steps, output_file, file, writes, created, run,
                   energy, twin, ini, trajectory>>

\* parse_ini_content, lines 94-113: the last body, the test for no bodies,
\* and the result on which main goes on or returns
parse_finish ==
    /\ config.at = "lines"
    /\ config.line > Len(ini.lines)
    /\ config' = TheOne({ [config EXCEPT !.bodies = bs, !.body_data = None,
                                         !.at = IF bodies_is_empty(bs) THEN "failed"
                                                ELSE "parsed"] :
                          bs \in { PushBody(config.bodies, config.body_data) } })
    /\ UNCHANGED <<bodies, time, dt, derivative_fn, pc, stage, initial_bodies, k, ret,
                   evals, entry, steps, output_file, file, writes, created, run,
                   energy, twin, ini, trajectory>>

\* main, line 40: Simulator::with_output(config.bodies, config.time_step,
\* &output_file)?
main_with_output ==
    /\ config.at = "parsed"
    /\ \E create_ok, header_ok \in BOOLEAN :
          LET result == with_output_Result(create_ok, header_ok)
          IN  /\ created' = [by |-> "with_output", create_ok |-> create_ok,
                             header_ok |-> header_ok, result |-> result]
              /\ file' = IF create_ok /\ header_ok THEN << header(config.bodies) >>
                         ELSE << >>
              /\ output_file' = IF result = "Ok" THEN "Some" ELSE "None"
              /\ pc' = IF result = "Ok" THEN "idle" ELSE "no_simulator"
              /\ config' = [config EXCEPT !.at = IF result = "Ok" THEN "created"
                                                 ELSE "failed"]
    /\ bodies' = config.bodies
    /\ entry' = config.bodies
    /\ dt' = time_step
    /\ UNCHANGED <<time, derivative_fn, stage, initial_bodies, k, ret, evals, steps,
                   writes, run, energy, twin, ini, trajectory>>

\* main, line 48: sim.run(config.num_steps) is entered
main_run ==
    /\ config.at = "created"
    /\ run' = [status |-> "running", num_steps |-> num_steps, i |-> 0,
               steps0 |-> steps]
    /\ config' = [config EXCEPT !.at = "running"]
    /\ UNCHANGED <<bodies, time, dt, derivative_fn, pc, stage, initial_bodies, k, ret,
                   evals, entry, steps, output_file, file, writes, created, energy,
                   twin, ini, trajectory>>

NextConfig ==
    \/ parse_ini_file
    \/ parse_line
    \/ parse_finish
    \/ main_with_output
    \/ main_run

SpecConfig == InitConfig /\ [][NextConfig]_vars

----------------------------------------------------------------------------
(* Claims about the parsing of the configuration                           *)

\* line n of the file, trimmed
Trimmed(n) == trim(ini.lines[n])

IsHeaderLine(n) == ~IsSkipped(Trimmed(n)) /\ IsSectionHeader(Trimmed(n))

\* the lines that open a body section
BodyHeaders == { n \in 1..Len(ini.lines) : IsHeaderLine(n) /\ IsBodySection(Trimmed(n)) }

\* the last line of the section opened at line h
SectionEnd(h) ==
    IF \E m \in (h + 1)..Len(ini.lines) : IsHeaderLine(m)
    THEN (CHOOSE m \in (h + 1)..Len(ini.lines) :
              IsHeaderLine(m) /\ \A j \in (h + 1)..(m - 1) : ~IsHeaderLine(j)) - 1
    ELSE Len(ini.lines)

\* the lines of the section opened at h that give field f a number
Assignments(h, f) ==
    { n \in (h + 1)..SectionEnd(h) :
        /\ ~IsSkipped(Trimmed(n))
        /\ find(Trimmed(n), "=") # 0
        /\ key(Trimmed(n)) \in RecognisedKeys
        /\ FieldName(key(Trimmed(n))) = f
        /\ parse_f64(value_str(Trimmed(n))).ok }

\* the number the section opened at h gives field f: that of the last such
\* line, 0.0 if there is none
FieldValue(h, f) ==
    IF Assignments(h, f) = {} THEN Zero
    ELSE parse_f64(value_str(Trimmed(
            CHOOSE n \in Assignments(h, f) : \A m \in Assignments(h, f) : m <= n))).value

SectionBody(h) ==
    Body_new(FieldValue(h, "mass"),
             << FieldValue(h, "position_x"), FieldValue(h, "position_y"),
                FieldValue(h, "position_z") >>,
             << FieldValue(h, "velocity_x"), FieldValue(h, "velocity_y"),
                FieldValue(h, "velocity_z") >>)

\* a mass that is a number and is not > 0
NonPositive(m) == IsFinite(m) /\ ~RLt(Zero, m)

\* the bodies of the sections opened at the lines of H from line n on, in
\* the order of the file
RECURSIVE BodiesFrom(_, _)
BodiesFrom(n, H) ==
    IF n > Len(ini.lines) THEN << >>
    ELSE IF n \in H THEN << SectionBody(n) >> \o BodiesFrom(n + 1, H)
    ELSE BodiesFrom(n + 1, H)

\* the body sections whose mass is > 0
PositiveSections == { h \in BodyHeaders : RLt(Zero, FieldValue(h, "mass")) }

\* parse_ini_content has returned Ok to main
ParsedOk == config.at \in { "parsed", "created", "running" }

\* the file was read and its parse has returned
ParseReturned == ini.readable /\ config.at \notin { "start", "lines" }

\* C23: a configuration that contains a body section with non-positive (or
\* missing) mass is a configuration error: parsing returns a failure to the
\* caller and the run does not start (no simulator is created, no step is
\* taken).
C23_BadMassStopsRun ==
    (ParseReturned /\ \E h \in BodyHeaders : NonPositive(FieldValue(h, "mass"))) =>
        /\ config.at = "failed"
        /\ created = NotCreated
        /\ run.status # "running"
        /\ steps = 0

\* C24: a successful parse returns exactly one body for each body section of
\* the input whose mass is > 0, in the order the sections appear (the last
\* section of the file included), each with the position and velocity given
\* in its own section; hence every body that enters the simulation from a
\* config has mass > 0.
C24_BodiesOfSections ==
    /\ ParsedOk => config.bodies = BodiesFrom(1, PositiveSections)
    /\ \A i \in 1..Len(bodies) : RLt(Zero, bodies[i].mass)

\* C25: an input that yields zero valid bodies (empty, comments only, no body
\* section, or only sections with non-positive mass) makes the parser return
\* an error instead of a SimulationConfig with an empty body list.
C25_NoBodiesIsError ==
    /\ ParsedOk => config.bodies # << >>
    /\ (ParseReturned /\ \A h \in BodyHeaders : NonPositive(FieldValue(h, "mass"))) =>
          /\ config.at = "failed"
          /\ config.bodies = << >>
          /\ created = NotCreated

C25_Witness ==
    /\ ParseReturned /\ config.at = "failed"
    /\ Len(ini.lines) = 4
    /\ Cardinality(BodyHeaders) = 2
    /\ \E h \in BodyHeaders : RLt(FieldValue(h, "mass"), Zero)
    /\ \E h \in BodyHeaders : Assignments(h, "mass") = {}
                              /\ FieldValue(h, "position_x") = R(3)

\* the line that parse_line is about to read is a key = value pair inside a
\* body section
AtPair ==
    /\ config.at = "lines" /\ config.line <= Len(ini.lines)
    /\ config.body_data.some
    /\ ~IsSkipped(Trimmed(config.line))
    /\ ~IsSectionHeader(Trimmed(config.line))
    /\ find(Trimmed(config.line), "=") # 0

\* C26: in config parsing, a recognised key whose value is not a valid number
\* gives that field of the body the value 0.0 (also when the same key was
\* given a valid value earlier in the section), and never makes the parse
\* fail; unrecognised keys change no field.
C26_MalformedIsZero ==
    [][ (AtPair /\ config'.line = config.line + 1) =>
          /\ config'.at = "lines"
          /\ ( /\ key(Trimmed(config.line)) \in RecognisedKeys
               /\ ~parse_f64(value_str(Trimmed(config.line))).ok ) =>
                   config'.body_data.data[FieldName(key(Trimmed(config.line)))] = Zero
          /\ key(Trimmed(config.line)) \notin RecognisedKeys =>
                   config'.body_data = config.body_data ]_vars

----------------------------------------------------------------------------
(* trajectory.rs: the file of a with_output Simulator is read back         *)

\* the value of the digits f.frac after the point
RECURSIVE FractionValue(_, _, _)
FractionValue(digits, j, acc) ==
    IF j > Len(digits) THEN acc
    ELSE FractionValue(digits, j + 1, acc * 10 + digits[j])

\* str::parse::<f64> of a field printed by "{:.8}": the sign, the integer
\* part and the digits read back as a number; the words printed for values
\* that are not finite parse as such values
parse_field(f) ==
    IF f.frac = << >> THEN [ok |-> TRUE, value |-> NonFinite]
    ELSE LET magnitude == RAdd(R(f.int),
                               Rat(FractionValue(f.frac, 1, 0), PowerOfTen(Len(f.frac))))
         IN  [ok |-> TRUE, value |-> IF f.neg THEN RNeg(magnitude) ELSE magnitude]

RECURSIVE IsPowerOfTwo(_)
IsPowerOfTwo(d) == d = 1 \/ (d > 1 /\ d % 2 = 0 /\ IsPowerOfTwo(d \div 2))

\* some f32 next to a value that no f32 equals
Rounded_f32 == <<0, 0, 0>>

\* `x as f32`: x itself when 24 bits hold it, a neighbour of x otherwise
as_f32(x) ==
    IF ~IsFinite(x) THEN x
    ELSE IF IsPowerOfTwo(x[2]) /\ IAbs(x[1]) < 16777216 THEN x
    ELSE Rounded_f32

\* Position::new
Position_new(x, y, z) == << as_f32(x), as_f32(y), as_f32(z) >>

\* csv::Reader with has_headers(true): the first record is the header, and
\* every record has to be as long as the first
csv_records(f) == IF f = << >> THEN << >> ELSE Tail(f)

csv_equal_lengths(f) == \A n \in 1..Len(f) : Len(f[n]) = Len(f[1])

\* line 97
num_bodies(num_fields) == (num_fields - 1) \div 3

LoadError(open_ok) ==
    [opened |-> open_ok, result |-> "Err", bodies |-> << >>, num_frames |-> 0]

\* TrajectoryData::load_csv on the file f, File::open succeeding or not
load_csv(f, open_ok) ==
    LET records == csv_records(f)
        n_bodies == num_bodies(Len(records[1]))
        field(n, c) == parse_field(records[n][c])
    IN  IF ~open_ok THEN LoadError(open_ok)
        ELSE IF ~csv_equal_lengths(f) THEN LoadError(open_ok)
        ELSE IF records = << >> THEN LoadError(open_ok)
        ELSE IF Len(records[1]) < 4 THEN LoadError(open_ok)
        ELSE IF \E n \in 1..Len(records) : \E c \in 1..(1 + 3 * n_bodies) : ~field(n, c).ok
        THEN LoadError(open_ok)
        ELSE [opened |-> TRUE, result |-> "Ok",
              bodies |-> [b \in 1..n_bodies |->
                            [n \in 1..Len(records) |->
                                Position_new(field(n, 3 * b - 1).value,
                                             field(n, 3 * b).value,
                                             field(n, 3 * b + 1).value)]],
              num_frames |-> Len(records)]

\* the Simulator is done with (no step and no run in progress) and the file
\* it has created is loaded
TrajectoryData_load_csv ==
    /\ pc \in { "idle", "no_simulator" }
    /\ run.status # "running"
    /\ created.by = "with_output" /\ created.create_ok
    /\ \E open_ok \in BOOLEAN :
          trajectory' = TheOne({ loaded : loaded \in { load_csv(file, open_ok) } })
    /\ pc' = "loaded"
    /\ UNCHANGED <<bodies, time, dt, derivative_fn, stage, initial_bodies, k, ret,
                   evals, entry, steps, output_file, file, writes, created, run,
                   energy, twin, ini, config>>

NextTrajectory ==
    \/ RKF_Enter
    \/ RKF_Stage
    \/ RKF_Return
    \/ Simulator_step
    \/ Simulator_run
    \/ run_Return
    \/ set_dt
    \/ bodies_mut
    \/ TrajectoryData_load_csv

SpecTrajectory == Init /\ [][NextTrajectory]_vars


\* the position of body b in the line written at step n, as its eight
\* decimals say it
WrittenPosition(n, b) ==
    << parse_field(Format8(writes[n].positions[b][1])).value,
       parse_field(Format8(writes[n].positions[b][2])).value,
       parse_field(Format8(writes[n].positions[b][3])).value >>

\* C27: for every ensemble and every number of steps, loading with
\* TrajectoryData::load_csv the file written by a with_output simulator
\* succeeds and yields the same number of bodies as the ensemble, num_frames
\* equal to the number of steps taken, and for each body the sequence of
\* positions that was written, in step order.
C27_RoundTrip ==
    (pc = "loaded" /\ created.result = "Ok" /\ trajectory.opened) =>
        /\ trajectory.result = "Ok"
        /\ Len(trajectory.bodies) = Len(bodies)
        /\ trajectory.num_frames = steps
        /\ \A b \in 1..Len(bodies) :
              /\ Len(trajectory.bodies[b]) = steps
              /\ \A n \in 1..steps : trajectory.bodies[b][n] = WrittenPosition(n, b)

====
